---- MODULE Spec2Model ----
(***************************************************************************)
(* Completion detection, identifier allocation and transfer of cryo-ET     *)
(* datasets (src/sanofi_cryoet/db_transfer.py): the CryoETDB object, the   *)
(* processing directory and the repository it works on, and the polling    *)
(* loop of the __main__ block.                                             *)
(*                                                                         *)
(* Names of directories and files are sequences of character codes, so     *)
(* that sorted(), glob prefixes and str.split are computed, not assumed.   *)
(* Codes: 0 is '.', 1..9 are digits, 11.. are letters.                     *)
(* An entry id "<initials><date>-k1-k2.." is the record                    *)
(* [date |-> d, suf |-> <<k1, k2, ..>>]; the initials are those of the one *)
(* user of the run and the date has a fixed width, so the glob             *)
(* "<initials><date>*" matches exactly the entries with that date.         *)
(***************************************************************************)
EXTENDS Integers, Sequences, FiniteSets, TLC

VARIABLES
    dirs,           \* processing directory: dataset directory name -> its contents
    logs,           \* processing directory: stem of swbrt_<stem>.log -> its lines
    done,           \* names of the directories inside <proc_dir>/Done
    repo,           \* repository directory: entry id -> files inside the entry
    cfg,            \* DOSE_FRACTIONS and the subframe_path argument
    completed,      \* self.completed
    not_processed,  \* self.not_processed
    df,             \* self.df
    new_procs,      \* new_procs of the polling loop
    elapsed,        \* time.time() - start, in sleep intervals
    pc,             \* position of the polling process
    queue,          \* rest of the iteration over sorted(self.completed)
    row,            \* row of the dataset being transferred
    proc_frames,    \* the Popen object of the frames copy
    proc_dataset,   \* the Popen object of the processed-data copy
    trace,          \* the steps of the current polling iteration, in order
    events,         \* what the current transfer pass did so far, in order
    idle,           \* sleep intervals since a dataset was last newly classified
    faults,         \* external commands (mkdir, rsync, mv) that have failed so far
    proc_dir        \* the processing directory: "missing", "plain" or "with_done" (it holds Done)

vars == <<dirs, logs, done, repo, cfg, completed, not_processed, df, new_procs,
          elapsed, pc, queue, row, proc_frames, proc_dataset, trace, events, idle, faults,
          proc_dir>>

-----------------------------------------------------------------------------
(* Bounds of the model *)

MaxLines == 2        \* lines in the pipeline logs of the processing directory
MaxPre == 1          \* entries already in the repository, per date
MaxMdocs == 2        \* *.mdoc files per dataset directory
MaxNotProcessed == 2 \* length of self.not_processed
MaxFaults == 1       \* external commands (mkdir, rsync, mv) that fail in a run
TimeoutSleeps == 1   \* TIMEOUT, in sleep intervals
MaxScan == 3         \* lines of the log the completion scan is checked on
MaxAli == 2          \* files matching *_ali.mrc in a dataset directory

\* A name is the sequence of its characters, each given by its rank in the character
\* order: "." 0, digits 1..9, capitals from 11, "_" 40, small letters from 51
Names == {<<11>>, <<11, 12>>}      \* "A", "AB"
AliSuffix == <<40, 51, 62, 59, 0, 63, 68, 53>>      \* "_ali.mrc"
AliTags == {<<>>, <<1>>, <<40, 51, 62, 59>>}        \* "", "1", "_ali"
LogStems == Names
Dates == {1, 2}
Markers == {"ERROR", "ABORT", "SUCCESSFULLY COMPLETED"}
Foreign == <<>>                    \* owner of the files that were in the repository before the run

-----------------------------------------------------------------------------
(* Sequences and orders *)

Min(a, b) == IF a < b THEN a ELSE b

SeqsUpTo(S, n) == UNION {[1..k -> S] : k \in 0..n}

\* The orders in which a directory listing or a set iteration may enumerate S
Enumerations(S) ==
    {q \in [1..Cardinality(S) -> S] : \A i, j \in 1..Cardinality(S) : i # j => q[i] # q[j]}

\* str.__lt__
LexLess(s, t) ==
    \E k \in 0..Min(Len(s), Len(t)) :
        /\ \A i \in 1..k : s[i] = t[i]
        /\ \/ k = Len(s) /\ k < Len(t)
           \/ k < Len(s) /\ k < Len(t) /\ s[k + 1] < t[k + 1]

\* A variant that sorts in descending order
SortedReverse(S) ==
    CHOOSE q \in Enumerations(S) : \A i, j \in 1..Cardinality(S) : i < j => LexLess(q[j], q[i])

\* sorted() of pairwise different strings
Sorted(S) ==
    CHOOSE q \in Enumerations(S) : \A i, j \in 1..Cardinality(S) : i < j => LexLess(q[i], q[j])

\* str.startswith
StartsWith(s, p) == Len(p) <= Len(s) /\ \A i \in 1..Len(p) : s[i] = p[i]

RECURSIVE Flatten(_)
Flatten(ss) == IF ss = <<>> THEN <<>> ELSE Head(ss) \o Flatten(Tail(ss))

Range(q) == {q[i] : i \in DOMAIN q}

-----------------------------------------------------------------------------
(* The processing directory and the repository *)

\* What a dataset directory may contain: a file matching EXT or none, its *.mdoc files
\* (each given by the date of its modification time), and its files <n><tag>_ali.mrc
\* (each given by its tag)
Contents ==
    [rec : BOOLEAN, mdocs : SeqsUpTo(Dates, MaxMdocs),
     ali : {T \in SUBSET AliTags : Cardinality(T) <= MaxAli}]

\* Files of dataset directory n: the reconstruction, the descriptors, a tool log, the
\* aligned stacks
DirFiles(n) ==
    {[src |-> n, sub |-> "", stem |-> n \o t, suffix |-> "_ali.mrc"] : t \in dirs[n].ali} \cup
    (IF dirs[n].rec THEN {[src |-> n, sub |-> "", stem |-> n, suffix |-> "_rec.mrc"]} ELSE {})
    \cup {[src |-> n, sub |-> "", stem |-> n \o <<k>>, suffix |-> ".mdoc"] : k \in 1..Len(dirs[n].mdocs)}
    \cup {[src |-> n, sub |-> "", stem |-> n, suffix |-> ".log"]}

-----------------------------------------------------------------------------
(* CryoETDB.initialize_datasets and its helpers *)

GetProcdirs == {n \in DOMAIN dirs : dirs[n].rec}

GetMdocs(ds) ==
    Flatten([i \in DOMAIN ds |->
        [k \in 1..Len(dirs[ds[i]].mdocs) |->
            [dir |-> ds[i], name |-> ds[i] \o <<k>>, date |-> dirs[ds[i]].mdocs[k]]]])

GetMdocDates(mdocs) == [i \in DOMAIN mdocs |-> mdocs[i].date]

SearchDbIdenticals(entry_ids) ==
    [e \in entry_ids |-> Cardinality({id \in DOMAIN repo : id.date = e})]

\* A variant that appends the count of the prefix and not the position in the list
RECURSIVE AppendSuffixesCount(_, _, _)
AppendSuffixesCount(ids, prefixes, num_entries) ==
    IF prefixes = <<>> THEN ids
    ELSE AppendSuffixesCount(
            [k \in DOMAIN ids |->
                [date |-> ids[k].date,
                 suf |-> Append(ids[k].suf, num_entries[Head(prefixes)] + 1)]],
            Tail(prefixes), num_entries)

\* The two nested loops that append the suffixes: one pass over the whole list per prefix
RECURSIVE AppendSuffixes(_, _, _)
AppendSuffixes(ids, prefixes, num_entries) ==
    IF prefixes = <<>> THEN ids
    ELSE AppendSuffixes(
            [k \in DOMAIN ids |->
                [date |-> ids[k].date,
                 suf |-> Append(ids[k].suf, num_entries[Head(prefixes)] + (k - 1) + 1)]],
            Tail(prefixes), num_entries)

\* order: the order of iterdir(); prefixes: the order of iteration of the set of prefixes
InitializeDatasets(order, prefixes) ==
    LET mdocs == GetMdocs(order)
        dates == GetMdocDates(mdocs)
        dataset_names == Sorted(Range(order))
        mdoc_names == Sorted({mdocs[i].name : i \in DOMAIN mdocs})
        num_entries == SearchDbIdenticals(Range(prefixes))
        all_entry_ids == AppendSuffixes([k \in DOMAIN dates |-> [date |-> dates[k], suf |-> <<>>]],
                                        prefixes, num_entries)
    IN  IF Len(dates) # Len(order)
        THEN [ok |-> FALSE, df |-> <<>>]
        ELSE [ok |-> TRUE,
              df |-> [k \in DOMAIN order |->
                        [id |-> all_entry_ids[k], dataset |-> dataset_names[k],
                         mdoc |-> mdoc_names[k], date |-> dates[k]]]]

-----------------------------------------------------------------------------
(* CryoETDB.watch_for_completion *)

Count(lines, m) == Cardinality({i \in DOMAIN lines : m \in lines[i]})

\* A variant that takes a single ABORT line for an error
StatusAbortOnce(lines) ==
    LET num_error == Count(lines, "ERROR")
        num_abort == Count(lines, "ABORT")
        num_success == Count(lines, "SUCCESSFULLY COMPLETED")
    IN  IF num_abort > 0 \/ num_error > 0 THEN -1
        ELSE IF num_success = 1 THEN 0
        ELSE 1

\* 0 for success, -1 for error, 1 for ongoing
Status(lines) ==
    LET num_error == Count(lines, "ERROR")
        num_abort == Count(lines, "ABORT")
        num_success == Count(lines, "SUCCESSFULLY COMPLETED")
    IN  IF num_abort > 1 \/ num_error > 0 THEN -1
        ELSE IF num_success = 1 THEN 0
        ELSE 1

\* f.name.split('swbrt_')[-1].split('.')[0] for the file swbrt_<stem>.log
Basename(stem) ==
    LET dots == {i \in DOMAIN stem : stem[i] = 0}
    IN  IF dots = {} THEN stem
        ELSE SubSeq(stem, 1, (CHOOSE i \in dots : \A j \in dots : i <= j) - 1)

\* A variant that takes a log seen again after its dataset was recorded as completed
\* for a failed one
RecordStale(comp, stem) ==
    IF Status(logs[stem]) < 1
    THEN (Basename(stem) :>
            (IF Status(logs[stem]) = 0 /\ Basename(stem) \notin DOMAIN comp
             THEN "completed" ELSE "error")) @@ comp
    ELSE comp

\* self.completed[basename] = 'completed' if status == 0 else 'error', under status < 1
Record(comp, stem) ==
    IF Status(logs[stem]) < 1
    THEN (Basename(stem) :> (IF Status(logs[stem]) = 0 THEN "completed" ELSE "error")) @@ comp
    ELSE comp

\* The loop over sw_logs
RECURSIVE Scan(_, _)
Scan(comp, sw_logs) ==
    IF sw_logs = <<>> THEN comp ELSE Scan(Record(comp, Head(sw_logs)), Tail(sw_logs))

-----------------------------------------------------------------------------
(* The state after construction *)

Event(e, d, a) == [ev |-> e, ds |-> d, arg |-> a]
NoRow == [id |-> [date |-> 0, suf |-> <<>>], dataset |-> <<>>, mdoc |-> <<>>, date |-> 0]
NoProc == [state |-> "none", ds |-> <<>>, id |-> [date |-> 0, suf |-> <<>>], returncode |-> 0,
           full |-> FALSE, copied |-> 0]

Init ==
    /\ dirs \in [Names -> {c \in Contents : /\ c.ali = {}
                                            /\ IF c.rec THEN c.mdocs = <<1>> ELSE c.mdocs = <<>>}]
    /\ logs = <<>>
    /\ done = {}
    /\ \E pre \in 0..MaxPre :
          repo = [id \in {[date |-> 1, suf |-> <<k>>] : k \in 1..pre}
                  |-> {[src |-> Foreign, sub |-> "", stem |-> Foreign, suffix |-> "_rec.mrc"]}]
    /\ cfg \in {c \in [dose : {0, 1}, subframe : BOOLEAN] : c.dose = 1 \/ c.subframe}
    /\ completed = <<>>
    /\ not_processed = <<>>
    /\ df = <<>>
    /\ new_procs = 0
    /\ elapsed = 0
    /\ pc = "catalog"
    /\ queue = <<>>
    /\ row = NoRow
    /\ proc_frames = NoProc
    /\ proc_dataset = NoProc
    /\ trace = <<>>
    /\ events = <<>>
    /\ idle = 0
    /\ faults = 0
    /\ proc_dir = "plain"

-----------------------------------------------------------------------------
(* The polling loop of the __main__ block: catalog and completion scan *)

Step(name) == trace' = Append(trace, name)

\* The exit codes an external command may end with, and the count of the failures
ExitCodes == IF faults < MaxFaults THEN {0, 1} ELSE {0}
Failed(code) == faults' = IF code # 0 THEN faults + 1 ELSE faults
Note(e, d, a) == events' = Append(events, Event(e, d, a))

\* A variant of the check that takes every directory for an existing one
ExistsAlways(d) == TRUE

\* proc_dir.exists()
Exists(d) == d # "missing"

\* A variant that adds the new records to those of the catalog before
CatalogKeeps ==
    /\ UNCHANGED <<faults, proc_dir>>
    /\ pc = "catalog"
    /\ IF ~Exists(proc_dir)
       THEN /\ df' = df
            /\ pc' = "crashed"
            /\ trace' = <<"ValueError">>
       ELSE \E order \in Enumerations(GetProcdirs) :
            \E prefixes \in Enumerations(Range(GetMdocDates(GetMdocs(order)))) :
               LET r == InitializeDatasets(order, prefixes)
               IN  IF r.ok
                   THEN /\ df' = df \o r.df
                        /\ pc' = "detect"
                        /\ trace' = <<"catalog">>
                   ELSE /\ df' = df
                        /\ pc' = "crashed"
                        /\ trace' = <<"AssertionError">>
    /\ UNCHANGED <<dirs, logs, done, repo, cfg, completed, not_processed, new_procs, elapsed,
                   queue, row, proc_frames, proc_dataset, events, idle>>

\* db.initialize_datasets(PROC_DIR)
Catalog ==
    /\ UNCHANGED <<faults, proc_dir>>
    /\ pc = "catalog"
    /\ IF ~Exists(proc_dir)
       THEN /\ df' = df
            /\ pc' = "crashed"
            /\ trace' = <<"ValueError">>
       ELSE \E order \in Enumerations(GetProcdirs) :
            \E prefixes \in Enumerations(Range(GetMdocDates(GetMdocs(order)))) :
               LET r == InitializeDatasets(order, prefixes)
               IN  IF r.ok
                   THEN /\ df' = r.df
                        /\ pc' = "detect"
                        /\ trace' = <<"catalog">>
                   ELSE /\ df' = df
                        /\ pc' = "crashed"
                        /\ trace' = <<"AssertionError">>
    /\ UNCHANGED <<dirs, logs, done, repo, cfg, completed, not_processed, new_procs, elapsed,
                   queue, row, proc_frames, proc_dataset, events, idle>>

\* A variant that transfers in every iteration
ShouldTransferAlways(n) == TRUE

\* if new_procs:
ShouldTransfer(n) == n # 0

\* A variant of the result that reports log files in every pass
WatchResultAlways(sw_logs) == 1

\* The result of watch_for_completion: 0 if no logs were detected, 1 at the end of the scan
WatchResult(sw_logs) == IF sw_logs = {} THEN 0 ELSE 1

\* new_procs = db.watch_for_completion(PROC_DIR)
Detect ==
    /\ UNCHANGED <<faults, proc_dir>>
    /\ pc = "detect"
    /\ IF ~Exists(proc_dir)
       THEN /\ pc' = "crashed"
            /\ Step("ValueError")
            /\ UNCHANGED <<new_procs, completed, idle>>
       ELSE /\ new_procs' = WatchResult(DOMAIN logs)
            /\ IF DOMAIN logs = {}
               THEN UNCHANGED completed
               ELSE \E sw_logs \in Enumerations(DOMAIN logs) :
                       completed' = Scan(completed, sw_logs)
            /\ idle' = IF completed' # completed THEN 0 ELSE idle
            /\ pc' = IF ShouldTransfer(new_procs') THEN "transfer" ELSE "check"
            /\ Step("detect")
    /\ UNCHANGED <<dirs, logs, done, repo, cfg, not_processed, df, elapsed, queue, row,
                   proc_frames, proc_dataset, events>>

-----------------------------------------------------------------------------
(* CryoETDB.transfer *)

\* The files the processed-data rsync does not exclude
Excluded(f) == f.suffix \in {"~", ".log", ".adoc", "_preali.mrc", "_full_rec.mrc", ".out"}

\* dataset_dir.glob('*_ali.mrc')
AliFiles(n) == {f \in DirFiles(n) : f.suffix = "_ali.mrc"}

\* A variant that singles out an aligned stack whenever the directory holds one
AliWhenAny(n) ==
    IF Cardinality(AliFiles(n)) > 0
    THEN {CHOOSE f \in AliFiles(n) :
            \A g \in AliFiles(n) \ {f} : LexLess(g.stem \o AliSuffix, f.stem \o AliSuffix)}
    ELSE {}

\* ali = max(ali_files).name if len(ali_files) > 1 else "", as the set of files named so
Ali(n) ==
    IF Cardinality(AliFiles(n)) > 1
    THEN {CHOOSE f \in AliFiles(n) :
            \A g \in AliFiles(n) \ {f} : LexLess(g.stem \o AliSuffix, f.stem \o AliSuffix)}
    ELSE {}

\* The files the rsync command of _transfer_dataset copies
Transferable(n) == {f \in DirFiles(n) : ~Excluded(f) /\ f \notin Ali(n)}

\* The frames the descriptor of dataset n refers to, as they arrive in <entry>/Frames
FrameFiles(n) == {[src |-> n, sub |-> "Frames", stem |-> n, suffix |-> ".mrc"]}

\* rsync --ignore-existing: the files of fs that entry id does not hold under the same name
Missing(fs, id) ==
    {f \in fs : id \notin DOMAIN repo
                \/ ~\E g \in repo[id] : g.sub = f.sub /\ g.stem = f.stem /\ g.suffix = f.suffix}

\* The head of the function (precondition, mkdir -p Done) and sorted(self.completed)
TransferBegin ==
    /\ UNCHANGED faults
    /\ pc = "transfer"
    /\ IF ~Exists(proc_dir)
       THEN /\ pc' = "crashed"
            /\ Step("ValueError")
            /\ UNCHANGED <<queue, events, proc_dir>>
       ELSE /\ proc_dir' = "with_done"
            /\ queue' = Sorted(DOMAIN completed)
            /\ pc' = "lookup"
            /\ Step("transfer")
            /\ events' = <<>>
    /\ UNCHANGED <<dirs, logs, done, repo, cfg, completed, not_processed, df, new_procs, elapsed,
                   row, proc_frames, proc_dataset, idle>>

\* A variant whose predicate selects every row
RowsAny(dataset) == DOMAIN df

\* self.df.row(by_predicate=(pl.col('dataset') == dataset))
Rows(dataset) == {k \in DOMAIN df : df[k].dataset = dataset}

\* The loop head with the row of the next dataset, and the return of the function
Lookup ==
    /\ UNCHANGED <<faults, proc_dir>>
    /\ pc = "lookup"
    /\ IF queue = <<>>
       THEN /\ pc' = "reset"
            /\ proc_frames' = NoProc
            /\ proc_dataset' = NoProc
            /\ row' = NoRow
            /\ events' = <<>>
            /\ UNCHANGED <<not_processed, queue>>
       ELSE IF Rows(Head(queue)) = {}
       THEN /\ Len(not_processed) < MaxNotProcessed
            /\ not_processed' = Append(not_processed, Head(queue))
            /\ queue' = Tail(queue)
            /\ Note("miss", Head(queue), 0)
            /\ UNCHANGED <<pc, row, proc_frames, proc_dataset>>
       ELSE /\ row' = df[CHOOSE k \in Rows(Head(queue)) : TRUE]
            /\ pc' = "frames"
            /\ UNCHANGED <<not_processed, queue, proc_frames, proc_dataset, events>>
    /\ UNCHANGED <<dirs, logs, done, repo, cfg, completed, df, new_procs, elapsed, trace, idle>>

\* A variant that asks for DOSE_FRACTIONS only
FramesWantedDoseOnly == cfg.dose # 0

\* if DOSE_FRACTIONS: if subframe_path:
FramesWanted == cfg.dose # 0 /\ cfg.subframe

\* The descriptor <proc_dir>/<dataset>/<mdoc> of the row can be opened
MdocReadable(r) ==
    \E f \in DirFiles(r.dataset) : f.suffix = ".mdoc" /\ f.stem = r.mdoc

\* _transfer_rawframes and the Popen of its result. The extension of the frame references
\* of the descriptor is recognised or not: the descriptor is read in this step only, and
\* no step follows the one that finds an unrecognised extension
LaunchFrames ==
    /\ UNCHANGED proc_dir
    /\ pc = "frames"
    /\ IF FramesWanted
       THEN \E mkdir \in ExitCodes, recognised \in BOOLEAN :
              /\ Failed(mkdir)
              /\ IF mkdir # 0
                 THEN \* the exit code is logged, returned and handed to Popen
                      /\ recognised
                      /\ pc' = "crashed"
                      /\ Step("TypeError")
                      /\ Note("error_mkdir", row.dataset, mkdir)
                      /\ UNCHANGED <<repo, proc_frames>>
                 ELSE /\ repo' = IF row.id \in DOMAIN repo THEN repo ELSE (row.id :> {}) @@ repo
                      /\ IF ~MdocReadable(row)
                         THEN /\ recognised
                              /\ pc' = "crashed"
                              /\ Step("FileNotFoundError")
                              /\ UNCHANGED <<proc_frames, events>>
                         ELSE IF ~recognised
                         THEN \* the error is logged, 1 is returned and handed to Popen
                              /\ pc' = "crashed"
                              /\ Step("TypeError")
                              /\ Note("error_ext", row.dataset, 1)
                              /\ UNCHANGED proc_frames
                         ELSE /\ proc_frames' = [state |-> "running", ds |-> row.dataset,
                                                 id |-> row.id, returncode |-> 0,
                                                 full |-> FALSE, copied |-> 0]
                              /\ pc' = "data"
                              /\ Note("popen_frames", row.dataset, 0)
                              /\ UNCHANGED trace
       ELSE /\ pc' = "data"
            /\ events' = IF cfg.dose # 0
                         THEN Append(events, Event("warning", row.dataset, 0))
                         ELSE events
            /\ UNCHANGED <<repo, proc_frames, trace, faults>>
    /\ UNCHANGED <<dirs, logs, done, cfg, completed, not_processed, df, new_procs, elapsed,
                   queue, row, proc_dataset, idle>>

\* A variant that launches the processed-data copy once the frames copy has ended
LaunchDatasetAfterFrames ==
    /\ UNCHANGED <<faults, proc_dir>>
    /\ pc = "data"
    /\ FramesWanted => proc_frames.state = "exited"
    /\ IF row.dataset \in DOMAIN dirs
       THEN /\ proc_dataset' =
                  [state |-> "running", ds |-> row.dataset, id |-> row.id, returncode |-> 0,
                   full |-> \E id \in DOMAIN repo : Missing(Transferable(row.dataset), id) = {},
                   copied |-> 0]
            /\ pc' = "join_frames"
            /\ Note("popen_dataset", row.dataset, 0)
            /\ UNCHANGED trace
       ELSE /\ pc' = "crashed"
            /\ Step("ValueError")
            /\ UNCHANGED <<proc_dataset, events>>
    /\ UNCHANGED <<dirs, logs, done, repo, cfg, completed, not_processed, df, new_procs, elapsed,
                   queue, row, proc_frames, idle>>

\* _transfer_dataset and the Popen of its result
LaunchDataset ==
    /\ UNCHANGED <<faults, proc_dir>>
    /\ pc = "data"
    /\ IF row.dataset \in DOMAIN dirs
       THEN /\ proc_dataset' =
                  [state |-> "running", ds |-> row.dataset, id |-> row.id, returncode |-> 0,
                   full |-> \E id \in DOMAIN repo : Missing(Transferable(row.dataset), id) = {},
                   copied |-> 0]
            /\ pc' = "join_frames"
            /\ Note("popen_dataset", row.dataset, 0)
            /\ UNCHANGED trace
       ELSE /\ pc' = "crashed"
            /\ Step("ValueError")
            /\ UNCHANGED <<proc_dataset, events>>
    /\ UNCHANGED <<dirs, logs, done, repo, cfg, completed, not_processed, df, new_procs, elapsed,
                   queue, row, proc_frames, idle>>

\* An rsync ends: every missing file copied and exit code 0, or nothing copied and a
\* non-zero exit code
Exit(p, fs, code) ==
    [p EXCEPT !.state = "exited", !.returncode = code,
              !.copied = IF code = 0 THEN Cardinality(Missing(fs, p.id)) ELSE 0]

Store(p, fs, code) ==
    IF code = 0
    THEN (p.id :> ((IF p.id \in DOMAIN repo THEN repo[p.id] ELSE {}) \cup Missing(fs, p.id))) @@ repo
    ELSE repo

FramesExit ==
    /\ UNCHANGED proc_dir
    /\ proc_frames.state = "running"
    /\ \E code \in ExitCodes :
          /\ Failed(code)
          /\ proc_frames' = Exit(proc_frames, FrameFiles(proc_frames.ds), code)
          /\ repo' = Store(proc_frames, FrameFiles(proc_frames.ds), code)
    /\ UNCHANGED <<dirs, logs, done, cfg, completed, not_processed, df, new_procs, elapsed, pc,
                   queue, row, proc_dataset, trace, events, idle>>

DatasetExit ==
    /\ UNCHANGED proc_dir
    /\ proc_dataset.state = "running"
    /\ \E code \in ExitCodes :
          /\ Failed(code)
          /\ proc_dataset' = Exit(proc_dataset, Transferable(proc_dataset.ds), code)
          /\ repo' = Store(proc_dataset, Transferable(proc_dataset.ds), code)
    /\ UNCHANGED <<dirs, logs, done, cfg, completed, not_processed, df, new_procs, elapsed, pc,
                   queue, row, proc_frames, trace, events, idle>>

\* A variant that does not wait for the process
CommunicateNoWait(p) == TRUE

\* Popen.communicate() returns once the process has ended
Communicate(p) == p.state = "exited"

\* A variant that logs no error
ErrorIfNever(what, code) == <<>>

\* dataset_logger.error after a communicate()
ErrorIf(what, code) == IF code # 0 THEN <<Event(what, row.dataset, code)>> ELSE <<>>

\* if DOSE_FRACTIONS and subframe_path: proc_frames.communicate()
JoinFrames ==
    /\ UNCHANGED <<faults, proc_dir>>
    /\ pc = "join_frames"
    /\ IF FramesWanted
       THEN /\ Communicate(proc_frames)
            /\ events' = events \o ErrorIf("error_frames", proc_frames.returncode)
       ELSE UNCHANGED events
    /\ pc' = "join_data"
    /\ UNCHANGED <<dirs, logs, done, repo, cfg, completed, not_processed, df, new_procs, elapsed,
                   queue, row, proc_frames, proc_dataset, trace, idle>>

\* A variant that goes on without proc_dataset.communicate()
JoinDatasetNoWait ==
    /\ UNCHANGED <<faults, proc_dir>>
    /\ pc = "join_data"
    /\ events' = events \o ErrorIf("error_dataset", proc_dataset.returncode)
    /\ pc' = "move"
    /\ UNCHANGED <<dirs, logs, done, repo, cfg, completed, not_processed, df, new_procs, elapsed,
                   queue, row, proc_frames, proc_dataset, trace, idle>>

\* proc_dataset.communicate()
JoinDataset ==
    /\ UNCHANGED <<faults, proc_dir>>
    /\ pc = "join_data"
    /\ Communicate(proc_dataset)
    /\ events' = events \o ErrorIf("error_dataset", proc_dataset.returncode)
    /\ pc' = "move"
    /\ UNCHANGED <<dirs, logs, done, repo, cfg, completed, not_processed, df, new_procs, elapsed,
                   queue, row, proc_frames, proc_dataset, trace, idle>>

\* The shell expansion of swbrt_<dataset>*.log
LogGlob(dataset) == {stem \in DOMAIN logs : StartsWith(stem, dataset)}

\* A variant that reads every mv as a success
MvStatusZero(failed, dataset) == 0

\* proc_mv.returncode: mv complains about the pattern when it matched no file
MvStatus(failed, dataset) == IF failed \/ LogGlob(dataset) = {} THEN 1 ELSE 0

\* A variant that leaves the loop when mv fails
MoveRaises ==
    /\ UNCHANGED proc_dir
    /\ pc = "move"
    /\ \E status \in ExitCodes :
         LET failed == status # 0
             code == MvStatus(failed, row.dataset)
         IN  /\ Failed(status)
             /\ IF failed
                THEN UNCHANGED <<dirs, logs, done>>
                ELSE /\ dirs' = [n \in DOMAIN dirs \ {row.dataset} |-> dirs[n]]
                     /\ logs' = [stem \in DOMAIN logs \ LogGlob(row.dataset) |-> logs[stem]]
                     /\ done' = done \cup {row.dataset}
             /\ events' = Append(events, Event("mv", row.dataset, 0)) \o ErrorIf("error_mv", code)
    /\ queue' = Tail(queue)
    /\ pc' = IF row.dataset \in DOMAIN dirs' THEN "crashed" ELSE "lookup"
    /\ UNCHANGED <<repo, cfg, completed, not_processed, df, new_procs, elapsed, row,
                   proc_frames, proc_dataset, trace, idle>>

\* A variant that moves the logs and leaves the dataset directory where it is
MoveLeavesDir ==
    /\ UNCHANGED proc_dir
    /\ pc = "move"
    /\ \E status \in ExitCodes :
         LET failed == status # 0
             code == MvStatus(failed, row.dataset)
         IN  /\ Failed(status)
             /\ IF failed
                THEN UNCHANGED <<dirs, logs, done>>
                ELSE /\ dirs' = dirs
                     /\ logs' = [stem \in DOMAIN logs \ LogGlob(row.dataset) |-> logs[stem]]
                     /\ done' = done \cup {row.dataset}
             /\ events' = Append(events, Event("mv", row.dataset, 0)) \o ErrorIf("error_mv", code)
    /\ queue' = Tail(queue)
    /\ pc' = "lookup"
    /\ UNCHANGED <<repo, cfg, completed, not_processed, df, new_procs, elapsed, row,
                   proc_frames, proc_dataset, trace, idle>>

\* mv <dataset_dir> swbrt_<dataset>*.log <done_dir>: mv moves its operands, or it fails
\* and moves nothing
Move ==
    /\ UNCHANGED proc_dir
    /\ pc = "move"
    /\ \E status \in ExitCodes :
         LET failed == status # 0
             code == MvStatus(failed, row.dataset)
         IN  /\ Failed(status)
             /\ IF failed
                THEN UNCHANGED <<dirs, logs, done>>
                ELSE /\ dirs' = [n \in DOMAIN dirs \ {row.dataset} |-> dirs[n]]
                     /\ logs' = [stem \in DOMAIN logs \ LogGlob(row.dataset) |-> logs[stem]]
                     /\ done' = done \cup {row.dataset}
             /\ events' = Append(events, Event("mv", row.dataset, 0)) \o ErrorIf("error_mv", code)
    /\ queue' = Tail(queue)
    /\ pc' = "lookup"
    /\ UNCHANGED <<repo, cfg, completed, not_processed, df, new_procs, elapsed, row,
                   proc_frames, proc_dataset, trace, idle>>

-----------------------------------------------------------------------------
(* The polling loop: timer, timeout and sleep *)

\* A variant that leaves the timer running after a transfer
ResetTimerForgets ==
    /\ UNCHANGED <<faults, proc_dir>>
    /\ pc = "reset"
    /\ elapsed' = elapsed
    /\ pc' = "check"
    /\ Step("reset")
    /\ UNCHANGED <<dirs, logs, done, repo, cfg, completed, not_processed, df, new_procs,
                   queue, row, proc_frames, proc_dataset, events, idle>>

\* start = time.time()  # Reset the timer
ResetTimer ==
    /\ UNCHANGED <<faults, proc_dir>>
    /\ pc = "reset"
    /\ elapsed' = 0
    /\ pc' = "check"
    /\ Step("reset")
    /\ UNCHANGED <<dirs, logs, done, repo, cfg, completed, not_processed, df, new_procs,
                   queue, row, proc_frames, proc_dataset, events, idle>>

\* A variant that allows one more interval
TimedOutLate(e) == e > TimeoutSleeps + 1

\* (end - start) > TIMEOUT
TimedOut(e) == e > TimeoutSleeps

\* The timeout check: the tmux sessions are killed and the loop is left, or the loop goes on
CheckTimeout ==
    /\ UNCHANGED <<faults, proc_dir>>
    /\ pc = "check"
    /\ pc' = IF TimedOut(elapsed) THEN "terminated" ELSE "sleep"
    /\ Step(IF TimedOut(elapsed) THEN "kill" ELSE "check")
    /\ UNCHANGED <<dirs, logs, done, repo, cfg, completed, not_processed, df, new_procs, elapsed,
                   queue, row, proc_frames, proc_dataset, events, idle>>

\* time.sleep(60)
Sleep ==
    /\ UNCHANGED <<faults, proc_dir>>
    /\ pc = "sleep"
    /\ elapsed' = elapsed + 1
    /\ idle' = Min(idle + 1, TimeoutSleeps + 1)
    /\ pc' = "catalog"
    /\ Step("sleep")
    /\ UNCHANGED <<dirs, logs, done, repo, cfg, completed, not_processed, df, new_procs,
                   queue, row, proc_frames, proc_dataset, events>>

-----------------------------------------------------------------------------
(* The reconstruction pipeline, which writes the swbrt logs while the loop sleeps *)

Appendable == {{}, {"ERROR"}, {"SUCCESSFULLY COMPLETED"}}

RECURSIVE Total(_, _)
Total(f, S) == IF S = {} THEN 0 ELSE LET x == CHOOSE x \in S : TRUE IN Len(f[x]) + Total(f, S \ {x})

PipelineWrites ==
    /\ UNCHANGED <<faults, proc_dir>>
    /\ pc = "detect"
    /\ Total(logs, DOMAIN logs) < MaxLines
    /\ \E stem \in LogStems, line \in Appendable :
          /\ Basename(stem) \notin done
          /\ logs' = IF stem \in DOMAIN logs
                     THEN [logs EXCEPT ![stem] = Append(@, line)]
                     ELSE (stem :> <<line>>) @@ logs
    /\ UNCHANGED <<dirs, done, repo, cfg, completed, not_processed, df, new_procs, elapsed, pc,
                   queue, row, proc_frames, proc_dataset, trace, events, idle>>

-----------------------------------------------------------------------------

Next ==
    \/ Catalog
    \/ Detect
    \/ TransferBegin
    \/ Lookup
    \/ LaunchFrames
    \/ LaunchDataset
    \/ FramesExit
    \/ DatasetExit
    \/ JoinFrames
    \/ JoinDataset
    \/ Move
    \/ ResetTimer
    \/ CheckTimeout
    \/ Sleep
    \/ PipelineWrites

Spec == Init /\ [][Next]_vars

\* The completion scan alone, on one pipeline log of any content: the state after a catalog
\* of a processing directory without datasets
InitDetector ==
    /\ dirs = [n \in Names |-> [rec |-> FALSE, mdocs |-> <<>>, ali |-> {}]]
    /\ \E stem \in LogStems, lines \in SeqsUpTo(SUBSET Markers, MaxScan) : logs = (stem :> lines)
    /\ done = {}
    /\ repo = <<>>
    /\ cfg = [dose |-> 0, subframe |-> TRUE]
    /\ completed = <<>>
    /\ not_processed = <<>>
    /\ df = <<>>
    /\ new_procs = 0
    /\ elapsed = 0
    /\ pc = "detect"
    /\ queue = <<>>
    /\ row = NoRow
    /\ proc_frames = NoProc
    /\ proc_dataset = NoProc
    /\ trace = <<"catalog">>
    /\ events = <<>>
    /\ idle = 0
    /\ faults = 0
    /\ proc_dir = "plain"

NextDetector == Detect

SpecDetector == InitDetector /\ [][NextDetector]_vars

\* The three entry points on a processing directory that does not exist (any more), with
\* what the object may hold by then
InitNoProcDir ==
    /\ proc_dir = "missing"
    /\ dirs = <<>>
    /\ logs = <<>>
    /\ done = {}
    /\ \E pre \in 0..MaxPre :
          repo = [id \in {[date |-> 1, suf |-> <<k>>] : k \in 1..pre}
                  |-> {[src |-> Foreign, sub |-> "", stem |-> Foreign, suffix |-> "_rec.mrc"]}]
    /\ cfg \in {c \in [dose : {0, 1}, subframe : BOOLEAN] : c.dose = 1 \/ c.subframe}
    /\ completed \in UNION {[S -> {"completed", "error"}] : S \in SUBSET Names}
    /\ not_processed \in {<<>>} \cup {<<n>> : n \in Names}
    /\ df \in {<<>>} \cup {<<[id |-> [date |-> 1, suf |-> <<1>>], dataset |-> n,
                               mdoc |-> n \o <<1>>, date |-> 1]>> : n \in Names}
    /\ pc \in {"catalog", "detect", "transfer"}
    /\ new_procs = IF pc = "transfer" THEN 1 ELSE 0
    /\ trace = IF pc = "catalog" THEN <<>>
               ELSE IF pc = "detect" THEN <<"catalog">> ELSE <<"catalog", "detect">>
    /\ elapsed = 0
    /\ queue = <<>>
    /\ row = NoRow
    /\ proc_frames = NoProc
    /\ proc_dataset = NoProc
    /\ events = <<>>
    /\ idle = 0
    /\ faults = 0

NextNoProcDir ==
    \/ Catalog
    \/ Detect
    \/ TransferBegin

SpecNoProcDir == InitNoProcDir /\ [][NextNoProcDir]_vars

\* The catalog pass alone, on processing directories with up to three dataset directories
\* of any content and a repository with entries for each date
CatalogNames == Names \cup {<<12>>}

InitCatalog ==
    /\ proc_dir = "plain"
    /\ dirs \in [CatalogNames -> {c \in Contents : c.ali = {}}]
    /\ logs = <<>>
    /\ done = {}
    /\ \E pre \in [Dates -> 0..MaxPre] :
          repo = [id \in UNION {{[date |-> d, suf |-> <<k>>] : k \in 1..pre[d]} : d \in Dates}
                  |-> {[src |-> Foreign, sub |-> "", stem |-> Foreign, suffix |-> "_rec.mrc"]}]
    /\ cfg = [dose |-> 1, subframe |-> TRUE]
    /\ completed = <<>>
    /\ not_processed = <<>>
    /\ df = <<>>
    /\ new_procs = 0
    /\ elapsed = 0
    /\ pc = "catalog"
    /\ queue = <<>>
    /\ row = NoRow
    /\ proc_frames = NoProc
    /\ proc_dataset = NoProc
    /\ trace = <<>>
    /\ events = <<>>
    /\ idle = 0
    /\ faults = 0

NextCatalog == Catalog

SpecCatalog == InitCatalog /\ [][NextCatalog]_vars

\* The polling loop on a processing directory with one finished dataset whose directory
\* holds up to MaxAli aligned stacks
InitAligned ==
    /\ \E n \in Names :
          /\ dirs \in [Names -> {c \in Contents :
                                   IF c.rec THEN c.mdocs = <<1>>
                                   ELSE (c.mdocs = <<>> /\ c.ali = {})}]
          /\ dirs[n].rec
          /\ \A m \in Names \ {n} : ~dirs[m].rec
          /\ logs \in {n :> <<{m}>> : m \in {"ERROR", "SUCCESSFULLY COMPLETED"}}
    /\ done = {}
    /\ \E pre \in 0..MaxPre :
          repo = [id \in {[date |-> 1, suf |-> <<k>>] : k \in 1..pre}
                  |-> {[src |-> Foreign, sub |-> "", stem |-> Foreign, suffix |-> "_rec.mrc"]}]
    /\ cfg \in {c \in [dose : {0, 1}, subframe : BOOLEAN] : c.dose = 1 \/ c.subframe}
    /\ completed = <<>>
    /\ not_processed = <<>>
    /\ df = <<>>
    /\ new_procs = 0
    /\ elapsed = 0
    /\ pc = "catalog"
    /\ queue = <<>>
    /\ row = NoRow
    /\ proc_frames = NoProc
    /\ proc_dataset = NoProc
    /\ trace = <<>>
    /\ events = <<>>
    /\ idle = 0
    /\ faults = 0
    /\ proc_dir = "plain"

\* The polling loop once the pipeline has written its logs
NextAligned ==
    \/ Catalog
    \/ Detect
    \/ TransferBegin
    \/ Lookup
    \/ LaunchFrames
    \/ LaunchDataset
    \/ FramesExit
    \/ DatasetExit
    \/ JoinFrames
    \/ JoinDataset
    \/ Move
    \/ ResetTimer
    \/ CheckTimeout
    \/ Sleep

SpecAligned == InitAligned /\ [][NextAligned]_vars

\* The polling loop on a processing directory without a finished reconstruction, so that
\* nothing is relocated and the log files only grow; the logs swbrt_A.log, swbrt_A.1.log
\* and swbrt_AB.log all match swbrt*.log
GrowStems == Names \cup {<<11, 0, 1>>}

PipelineAppends ==
    /\ UNCHANGED <<faults, proc_dir>>
    /\ pc = "detect"
    /\ Total(logs, DOMAIN logs) < MaxLines
    /\ \E stem \in GrowStems, line \in Appendable :
          logs' = IF stem \in DOMAIN logs
                  THEN [logs EXCEPT ![stem] = Append(@, line)]
                  ELSE (stem :> <<line>>) @@ logs
    /\ UNCHANGED <<dirs, done, repo, cfg, completed, not_processed, df, new_procs, elapsed, pc,
                   queue, row, proc_frames, proc_dataset, trace, events, idle>>

InitGrow ==
    /\ dirs = [n \in Names |-> [rec |-> FALSE, mdocs |-> <<>>, ali |-> {}]]
    /\ logs = <<>>
    /\ done = {}
    /\ \E pre \in 0..MaxPre :
          repo = [id \in {[date |-> 1, suf |-> <<k>>] : k \in 1..pre}
                  |-> {[src |-> Foreign, sub |-> "", stem |-> Foreign, suffix |-> "_rec.mrc"]}]
    /\ cfg \in {c \in [dose : {0, 1}, subframe : BOOLEAN] : c.dose = 1 \/ c.subframe}
    /\ completed = <<>>
    /\ not_processed = <<>>
    /\ df = <<>>
    /\ new_procs = 0
    /\ elapsed = 0
    /\ pc = "catalog"
    /\ queue = <<>>
    /\ row = NoRow
    /\ proc_frames = NoProc
    /\ proc_dataset = NoProc
    /\ trace = <<>>
    /\ events = <<>>
    /\ idle = 0
    /\ faults = 0
    /\ proc_dir = "plain"

NextGrow ==
    \/ Catalog
    \/ Detect
    \/ TransferBegin
    \/ Lookup
    \/ ResetTimer
    \/ CheckTimeout
    \/ Sleep
    \/ PipelineAppends

SpecGrow == InitGrow /\ [][NextGrow]_vars

TypeOK ==
    /\ proc_dir \in {"missing", "plain", "with_done"}
    /\ pc \in {"catalog", "detect", "transfer", "lookup", "frames", "data", "join_frames",
               "join_data", "move", "reset", "check", "sleep", "terminated", "crashed"}
    /\ DOMAIN dirs \subseteq CatalogNames
    /\ DOMAIN logs \subseteq LogStems \cup GrowStems
    /\ elapsed \in 0..(TimeoutSleeps + 1)
    /\ new_procs \in {0, 1}

-----------------------------------------------------------------------------
(* Claims *)

\* The datasets whose files repository entry id holds
Owners(id) == {f.src : f \in repo[id]}

\* C1: entry ids are unique against the repository: no repository entry ever holds the
\* files of two different datasets, whatever sequence of polling iterations led there
C1_EntryIdsUnique == \A id \in DOMAIN repo : Cardinality(Owners(id)) <= 1

\* C2: Completion State is write-once: in every step a recorded dataset name stays recorded
\* and keeps the status it was recorded with, whatever is appended to its log
C2_WriteOnce ==
    [][\A n \in DOMAIN completed : n \in DOMAIN completed' /\ completed'[n] = completed[n]]_vars

\* C3 as stated: the loop does not go on (to the cooldown sleep) once more than the timeout
\* has passed without a dataset being newly classified, whatever log files are present
C3_IdleTimeoutStops == pc = "sleep" => idle <= TimeoutSleeps

\* C3, amended: the timer restarts in every iteration in which the detector found a log
\* file; the loop goes on only while the timer is within the timeout, and it terminates
\* only when the timer exceeds the timeout, in an iteration that found no log file
C3_TimerTimeoutStops ==
    /\ pc = "sleep" => elapsed <= TimeoutSleeps
    /\ pc = "terminated" => elapsed > TimeoutSleeps /\ new_procs = 0
    /\ (pc = "check" /\ new_procs # 0) => elapsed = 0

\* The loop has terminated after it had relocated a dataset
C3_Terminated == pc = "terminated" /\ done # {}

\* C4: a processed-data copy that runs for a dataset whose transferable files are all in
\* one repository entry already copies no file
C4_RerunCopiesNothing ==
    (proc_dataset.state = "exited" /\ proc_dataset.returncode = 0 /\ proc_dataset.full)
        => proc_dataset.copied = 0

\* C5: when the relocation of a dataset is about to start, the processed-data copy launched
\* for it has ended, and so has the frames copy when one was launched
C5_MoveAfterCopies ==
    pc = "move" =>
        /\ proc_dataset.state = "exited" /\ proc_dataset.ds = row.dataset
        /\ proc_frames.state # "running"
        /\ FramesWanted => proc_frames.state = "exited" /\ proc_frames.ds = row.dataset

\* A relocation about to start after a frames copy and a processed-data copy
C5_BothCopiesJoined ==
    pc = "move" /\ proc_frames.state = "exited" /\ proc_dataset.state = "exited"

\* The events of the current pass that concern dataset d
EventsOf(d, kinds) == {i \in DOMAIN events : events[i].ds = d /\ events[i].ev \in kinds}

\* C6: a copy that ended with a non-zero exit status is recorded as an error of its dataset
\* with the exit code; the relocation of that dataset is attempted all the same; and no
\* dataset of the batch is dropped: each one is still queued or has been handled
C6_CopyErrorGoesOn ==
    /\ pc = "move" =>
          /\ (FramesWanted /\ proc_frames.returncode # 0) =>
                \E i \in EventsOf(row.dataset, {"error_frames"}) :
                    events[i].arg = proc_frames.returncode
          /\ proc_dataset.returncode # 0 =>
                \E i \in EventsOf(row.dataset, {"error_dataset"}) :
                    events[i].arg = proc_dataset.returncode
    /\ pc = "lookup" =>
          /\ \A i \in DOMAIN events : events[i].ev \in {"error_frames", "error_dataset"} =>
                \E j \in EventsOf(events[i].ds, {"mv"}) : i < j
          /\ \A n \in DOMAIN completed :
                n \in Range(queue) \/ EventsOf(n, {"miss", "mv"}) # {}

\* A pass in which a copy failed, its dataset was relocated and the next dataset was copied
C6_FailedCopyThenNext ==
    /\ pc = "lookup"
    /\ queue = <<>>
    /\ \E i, j, k \in DOMAIN events :
          /\ i < j /\ j < k
          /\ events[i].ev \in {"error_frames", "error_dataset"}
          /\ events[j].ev = "mv" /\ events[j].ds = events[i].ds
          /\ events[k].ev = "popen_dataset" /\ events[k].ds # events[i].ds

\* C7: the step of the Transfer Engine for a name that has no row in the latest catalog
\* appends the name to not_processed, launches no copy and no relocation, raises nothing
\* and leaves the engine at the next dataset of the batch
C7_LookupMiss ==
    [][(pc = "lookup" /\ queue # <<>> /\ ~\E k \in DOMAIN df : df[k].dataset = Head(queue)) =>
          /\ not_processed' = Append(not_processed, Head(queue))
          /\ queue' = Tail(queue)
          /\ pc' = "lookup"
          /\ proc_frames' = proc_frames /\ proc_dataset' = proc_dataset
          /\ dirs' = dirs /\ logs' = logs /\ done' = done /\ repo' = repo]_vars

\* A pass that skipped a name without a row and then copied the next dataset
C7_MissThenNext ==
    \E i, j \in DOMAIN events :
        /\ i < j
        /\ events[i].ev = "miss" /\ events[i].ds \in Range(not_processed)
        /\ events[j].ev = "popen_dataset"

\* The number of lines of log stem that contain marker m
Lines(stem, m) == Cardinality({i \in DOMAIN logs[stem] : m \in logs[stem][i]})

\* C8: after the scan, a log with e ERROR lines, a ABORT lines and s SUCCESSFULLY COMPLETED
\* lines is recorded as error iff a > 1 or e > 0, as completed iff it is not error and
\* s = 1, and is not recorded otherwise
C8_Classification ==
    pc # "detect" =>
        \A stem \in DOMAIN logs :
            LET e == Lines(stem, "ERROR")
                a == Lines(stem, "ABORT")
                s == Lines(stem, "SUCCESSFULLY COMPLETED")
                b == Basename(stem)
                error == b \in DOMAIN completed /\ completed[b] = "error"
                success == b \in DOMAIN completed /\ completed[b] = "completed"
            IN  /\ error <=> (a > 1 \/ e > 0)
                /\ success <=> (~(a > 1 \/ e > 0) /\ s = 1)
                /\ b \notin DOMAIN completed <=> (~(a > 1 \/ e > 0) /\ s # 1)
                /\ (s = 1 /\ e > 0) => error
                /\ a >= 2 => ~success

\* A scanned log with one success line and two ABORT lines, recorded as error
C8_AbortTwiceWithSuccess ==
    /\ pc # "detect"
    /\ \E stem \in DOMAIN logs :
          /\ Lines(stem, "SUCCESSFULLY COMPLETED") = 1
          /\ Lines(stem, "ABORT") = 2
          /\ Lines(stem, "ERROR") = 0
          /\ completed[Basename(stem)] = "error"

\* The end of a Transfer Engine pass: the batch is exhausted, the function returns next
PassEnd == pc = "lookup" /\ queue = <<>>

Catalogued(n) == \E k \in DOMAIN df : df[k].dataset = n

\* C9 as stated: at the end of a pass every recorded dataset is in the done archive, and
\* no copy and no relocation was launched for a dataset that is not recorded
C9_AllRelocated ==
    PassEnd =>
        /\ \A n \in DOMAIN completed : n \in done
        /\ \A n \in Names \ DOMAIN completed :
              n \notin done /\ EventsOf(n, {"popen_frames", "popen_dataset", "mv"}) = {}

\* C9, amended: at the end of a pass every recorded dataset with a row in the latest
\* catalog has had its copy and its relocation launched, and is in the done archive
\* unless an error of the relocation was recorded; every recorded dataset without a row
\* is in not_processed and had nothing launched; and a dataset that is not recorded had
\* nothing launched and its directory is where it was
C9_CataloguedRelocated ==
    PassEnd =>
        /\ \A n \in DOMAIN completed :
              IF Catalogued(n)
              THEN /\ EventsOf(n, {"popen_dataset"}) # {}
                   /\ EventsOf(n, {"mv"}) # {}
                   /\ EventsOf(n, {"miss"}) = {}
                   /\ n \in done \/ EventsOf(n, {"error_mv"}) # {}
                   /\ n \notin DOMAIN dirs <=> n \in done
              ELSE /\ n \in Range(not_processed)
                   /\ EventsOf(n, {"miss"}) # {}
                   /\ EventsOf(n, {"popen_frames", "popen_dataset", "mv"}) = {}
        /\ \A n \in Names \ DOMAIN completed :
              /\ n \notin done
              /\ n \in DOMAIN dirs
              /\ EventsOf(n, {"popen_frames", "popen_dataset", "mv", "miss"}) = {}

\* The end of a pass that relocated one recorded dataset and skipped another
C9_OneRelocatedOneSkipped ==
    /\ PassEnd
    /\ \E n, m \in DOMAIN completed :
          /\ n \in done /\ EventsOf(n, {"mv"}) # {}
          /\ m \notin done /\ EventsOf(m, {"miss"}) # {}

IsPrefix(s, t) == Len(s) <= Len(t) /\ \A i \in DOMAIN s : s[i] = t[i]

\* The steps of an iteration that transfers and of one that does not, up to the sleep
WithTransfer == <<"catalog", "detect", "transfer", "reset", "check", "sleep">>
WithoutTransfer == <<"catalog", "detect", "check", "sleep">>

\* C10: the steps of an iteration are, in this order, the catalog rebuild, the completion
\* scan, the transfer and the timer reset iff the detector returned true, the timeout
\* check and the sleep; the timer changes only by the reset and by the sleep; and the next
\* catalog rebuild starts after the sleep
C10_IterationOrder ==
    /\ [](pc \notin {"crashed", "terminated"} =>
            /\ IsPrefix(trace, WithTransfer) \/ IsPrefix(trace, WithoutTransfer)
            /\ Len(trace) >= 3 => (trace[3] = "transfer" <=> new_procs # 0)
            /\ pc = "catalog" => trace = <<>> \/ trace[Len(trace)] = "sleep"
            /\ (trace # <<>> /\ trace[Len(trace)] = "reset") => elapsed = 0)
    /\ [](pc = "terminated" =>
            /\ trace[Len(trace)] = "kill"
            /\ \/ IsPrefix(SubSeq(trace, 1, Len(trace) - 1), WithTransfer)
               \/ IsPrefix(SubSeq(trace, 1, Len(trace) - 1), WithoutTransfer)
            /\ ("transfer" \in Range(trace)) <=> (new_procs # 0)
            /\ ("reset" \in Range(trace)) <=> (new_procs # 0))
    /\ [][elapsed' # elapsed =>
            \/ pc = "reset" /\ "transfer" \in Range(trace) /\ elapsed' = 0
            \/ pc = "sleep" /\ elapsed' = elapsed + 1]_vars

\* An iteration with a transfer has ended with its sleep
C10_IterationWithTransfer == pc = "catalog" /\ trace = WithTransfer

\* C11: the completion scan returns true iff the processing directory holds at least one
\* pipeline log, whether or not it classified a dataset; without a log it returns false
\* and leaves Completion State as it was
C11_DetectorResult ==
    [][(pc = "detect" /\ pc' \in {"transfer", "check"}) =>
          /\ (new_procs' # 0) <=> (DOMAIN logs # {})
          /\ DOMAIN logs = {} => completed' = completed]_vars

\* The scan has returned true in a pass that classified no dataset anew
C11_TrueWithoutNews == pc = "transfer" /\ idle > 0 /\ DOMAIN completed # {}

\* The copies that are running
Running == {p \in {proc_frames, proc_dataset} : p.state = "running"}

\* C12: the copies that run at any moment belong to the one dataset the pass is at; no
\* copy runs when the pass takes the next dataset, nor outside a pass
C12_OneDatasetAtATime ==
    /\ \A p \in Running : p.ds = row.dataset
    /\ pc \in {"lookup", "frames"} => Running = {}
    /\ pc = "data" => proc_dataset.state # "running"
    /\ pc \in {"catalog", "detect", "transfer", "reset", "check", "sleep", "terminated"}
          => Running = {}

\* A copy runs for a dataset after another dataset of the pass was relocated
C12_SecondDatasetCopying ==
    /\ proc_dataset.state = "running"
    /\ \E i \in DOMAIN events : events[i].ev = "mv" /\ events[i].ds # proc_dataset.ds

\* C13: the relocation step records an error for its dataset when the mv ends with a
\* non-zero exit status (it moved nothing, or its log pattern matched no file), and in
\* every case the pass goes on with the rest of the batch
C13_MoveErrorGoesOn ==
    [][pc = "move" =>
          /\ pc' = "lookup"
          /\ queue' = Tail(queue)
          /\ (row.dataset \in DOMAIN dirs' \/ LogGlob(row.dataset) = {}) =>
                /\ Len(events') = Len(events) + 2
                /\ events'[Len(events')].ev = "error_mv"
                /\ events'[Len(events')].ds = row.dataset
                /\ events'[Len(events')].arg # 0]_vars

\* After a relocation that failed, the copy of the next dataset was launched
C13_FailedMoveThenNext ==
    \E i, j \in DOMAIN events :
        /\ i < j
        /\ events[i].ev = "error_mv" /\ events[i].ds \in DOMAIN dirs
        /\ events[j].ev = "popen_dataset" /\ events[j].ds # events[i].ds

\* C14: after the frames step of a dataset logged that the frames directory could not be
\* created or that an extension is not recognised, no exception ends the pass
C14_FrameFailureContained ==
    \A i \in DOMAIN events : events[i].ev \in {"error_mkdir", "error_ext"} => pc # "crashed"

\* C15: with DOSE_FRACTIONS set and no subframe path, no frames copy is launched or waited
\* for, the warning is logged for each dataset of the pass that has a row, and the
\* processed-data copy and the relocation of that dataset follow
C15_NoSubframePath ==
    (cfg.dose # 0 /\ ~cfg.subframe) =>
        /\ proc_frames.state = "none"
        /\ \A i \in DOMAIN events : events[i].ev # "popen_frames"
        /\ pc \in {"data", "join_frames", "join_data", "move"} =>
              EventsOf(row.dataset, {"warning"}) # {}
        /\ pc = "join_data" => EventsOf(row.dataset, {"popen_dataset"}) # {}
        /\ pc = "lookup" =>
              \A i \in DOMAIN events : events[i].ev = "warning" =>
                  \E j, k \in DOMAIN events :
                      /\ i < j /\ j < k
                      /\ events[j] = Event("popen_dataset", events[i].ds, 0)
                      /\ events[k] = Event("mv", events[i].ds, 0)

\* A pass without a subframe path has relocated a dataset after the warning
C15_WarnedAndRelocated ==
    /\ cfg.dose # 0 /\ ~cfg.subframe
    /\ pc = "lookup"
    /\ \E i \in DOMAIN events : events[i].ev = "warning" /\ events[i].ds \in done

\* C16: on a processing directory that does not exist, the catalog build, the completion
\* scan and the transfer raise ValueError and change nothing: Completion State,
\* not_processed and the catalog stay, no Done directory is made, nothing is launched
C16_MissingDirRaises ==
    [][(proc_dir = "missing" /\ pc \in {"catalog", "detect", "transfer"}) =>
          /\ pc' = "crashed"
          /\ trace'[Len(trace')] = "ValueError"
          /\ UNCHANGED <<completed, not_processed, df, proc_dir, dirs, logs, done, repo,
                         proc_frames, proc_dataset, events, queue>>]_vars

\* The transfer has raised on a missing directory with datasets recorded
C16_TransferRaised ==
    /\ pc = "crashed"
    /\ proc_dir = "missing"
    /\ trace = <<"catalog", "detect", "ValueError">>
    /\ DOMAIN completed # {}

\* C17: the entry ids a catalog pass assigns are pairwise distinct
C17_IdsDistinct ==
    pc = "detect" => \A i, j \in DOMAIN df : i # j => df[i].id # df[j].id

\* A catalog of three datasets of one date, with entries of that date in the repository
C17_ThreeOfOneDate ==
    /\ pc = "detect"
    /\ Len(df) = 3
    /\ \A i \in DOMAIN df : df[i].date = 1
    /\ \E id \in DOMAIN repo : id.date = 1

\* The number of repository entries whose name starts with the prefix of date d
Existing(d) == Cardinality({id \in DOMAIN repo : id.date = d})

\* Every dataset directory holds exactly one descriptor
OneMdocEach == \A n \in GetProcdirs : Len(dirs[n].mdocs) = 1

\* C18: every entry id of a catalog pass over dataset directories with one descriptor each
\* ends in a suffix -k with k greater than the number of repository entries that carry
\* the prefix of the id
C18_SuffixAboveCount ==
    (pc = "detect" /\ OneMdocEach) =>
        \A i \in DOMAIN df :
            LET suf == df[i].id.suf
            IN  suf # <<>> /\ suf[Len(suf)] > Existing(df[i].id.date)

\* C19: a catalog pass ends without an assertion failure and leaves exactly one record for
\* every dataset directory it enumerated
C19_OneRecordEach ==
    (pc # "catalog" /\ proc_dir # "missing") =>
        /\ pc # "crashed"
        /\ \A n \in GetProcdirs : Cardinality({k \in DOMAIN df : df[k].dataset = n}) = 1

\* C20: in every record of a catalog of dataset directories with one descriptor each, the
\* descriptor is the descriptor of the record's dataset directory, the date is the date
\* of that descriptor and the entry id carries that date
C20_ColumnsAligned ==
    (pc = "detect" /\ OneMdocEach) =>
        \A k \in DOMAIN df :
            /\ df[k].dataset \in DOMAIN dirs
            /\ \E m \in 1..Len(dirs[df[k].dataset].mdocs) :
                  /\ df[k].mdoc = df[k].dataset \o <<m>>
                  /\ df[k].date = dirs[df[k].dataset].mdocs[m]
            /\ df[k].id.date = df[k].date

\* C21: the list of unprocessed datasets is an append-only set: a recorded name is never
\* removed, a name is recorded only by a transfer pass whose catalog lookup for it failed,
\* and no name is held twice
C21_AppendOnlySet ==
    /\ [](\A i, j \in DOMAIN not_processed : i # j => not_processed[i] # not_processed[j])
    /\ [][/\ Len(not_processed') >= Len(not_processed)
          /\ SubSeq(not_processed', 1, Len(not_processed)) = not_processed
          /\ not_processed' # not_processed =>
                /\ pc = "lookup"
                /\ queue # <<>>
                /\ Rows(Head(queue)) = {}
                /\ not_processed' = Append(not_processed, Head(queue))]_vars

CopiedFrom(n, id) == {f \in DirFiles(n) : f \in repo[id]}

Group(d) == {k \in DOMAIN df : df[k].date = d}

\* C24: in a catalog of dataset directories with one descriptor each, the ids of the
\* datasets of one date carry exactly one suffix each, and with c repository entries of
\* that date and m datasets of that date the suffixes are c+1 to c+m, whatever other
\* dates the catalog holds
C24_GroupSuffixes ==
    (pc = "detect" /\ OneMdocEach) =>
        \A d \in Dates :
            /\ \A k \in Group(d) : Len(df[k].id.suf) = 1 /\ df[k].id.date = d
            /\ {df[k].id.suf[1] : k \in Group(d)}
                  = (Existing(d) + 1)..(Existing(d) + Cardinality(Group(d)))

\* C25: the two copies of a dataset overlap: the processed-data copy is launched after the
\* frames copy without waiting for it (it can be launched while the frames copy runs),
\* neither is joined before both are launched, and nothing else runs at the same time:
\* two commands run together only between the second launch and the first join
C25_CopiesOverlap ==
    /\ (pc = "data" /\ FramesWanted) =>
          proc_frames.state \in {"running", "exited"} /\ proc_frames.ds = row.dataset
    /\ (pc = "data" /\ proc_frames.state = "running" /\ row.dataset \in DOMAIN dirs) =>
          ENABLED (LaunchDataset /\ proc_dataset'.state = "running")
    /\ pc = "join_frames" =>
          proc_dataset.state \in {"running", "exited"} /\ proc_dataset.ds = row.dataset
    /\ Cardinality(Running) = 2 => pc = "join_frames"
    /\ Running # {} => pc \in {"data", "join_frames", "join_data"}

\* The frames copy and the processed-data copy of one dataset are running together
C25_BothRunning ==
    /\ pc = "join_frames"
    /\ Cardinality(Running) = 2
    /\ proc_frames.ds = proc_dataset.ds

\* The datasets the current pass has taken from the iteration so far, in order: each is
\* marked by its lookup miss or by the launch of its processed-data copy
Visits == SelectSeq(events, LAMBDA e : e.ev \in {"miss", "popen_dataset"})

\* C26: a transfer pass takes the recorded dataset names in ascending lexicographic order,
\* each once: the names taken so far ascend, the names still to come ascend and follow
\* them, and a pass that returns has taken every recorded name
C26_AscendingVisits ==
    /\ \A i, j \in DOMAIN Visits : i < j => LexLess(Visits[i].ds, Visits[j].ds)
    /\ pc \in {"lookup", "frames", "data", "join_frames", "join_data", "move"} =>
          /\ \A i, j \in DOMAIN queue : i < j => LexLess(queue[i], queue[j])
          /\ \A i \in DOMAIN Visits : \A j \in DOMAIN queue :
                Visits[i].ds = queue[j] \/ LexLess(Visits[i].ds, queue[j])
          /\ \A i \in DOMAIN Visits : \A j \in DOMAIN queue :
                Visits[i].ds = queue[j] => j = 1
          /\ {Visits[i].ds : i \in DOMAIN Visits} \cup Range(queue) = DOMAIN completed

\* A pass has taken "A" and then "AB", the latter after a lookup miss in an earlier pass
C26_TwoVisitedInOrder ==
    /\ Len(Visits) = 2
    /\ Visits[1].ds = <<11>>
    /\ Visits[2].ds = <<11, 12>>
    /\ <<11, 12>> \in Range(not_processed)
    /\ <<11>> \notin Range(not_processed)

\* C27: a catalog pass leaves the recorded statuses and the list of unprocessed datasets
\* as they are, and the catalog it builds holds one record per dataset directory it
\* enumerated and nothing else, so no record of the catalog before is left
C27_CatalogReplacesRecords ==
    [][pc = "catalog" =>
          /\ completed' = completed
          /\ not_processed' = not_processed
          /\ pc' = "detect" =>
                /\ Len(df') = Cardinality(GetProcdirs)
                /\ \A k \in DOMAIN df' : df'[k].dataset \in GetProcdirs]_vars

\* A catalog built after a dataset was relocated and another was missed: both lists are
\* kept, and the relocated dataset has no record any more
C27_RebuiltAfterRelocation ==
    /\ pc = "detect"
    /\ trace = <<"catalog">>
    /\ done # {}
    /\ DOMAIN completed # {}
    /\ Len(not_processed) > 0
    /\ Len(df) > 0
    /\ \A k \in DOMAIN df : df[k].dataset \notin done

\* C28: the loop is left only in an iteration whose completion scan found no log file:
\* such an iteration consists of the catalog, the scan and the timeout check, no log file
\* is in the processing directory then, and in an iteration in which the transfer ran the
\* timeout check finds the timer at zero and sends the loop to sleep
C28_TerminatesWithoutLogs ==
    /\ pc = "terminated" =>
          /\ trace = <<"catalog", "detect", "kill">>
          /\ new_procs = 0
          /\ DOMAIN logs = {}
    /\ "transfer" \in Range(trace) => pc # "terminated" /\ "kill" \notin Range(trace)
    /\ (pc = "check" /\ "transfer" \in Range(trace)) => ~TimedOut(elapsed)

\* The loop has been left after a pass that missed a dataset, once the logs were gone
C28_TerminatedAfterMiss == pc = "terminated" /\ Len(not_processed) > 0

\* C29: no step appends to the list of unprocessed datasets a dataset that is in the done
\* archive and has files in the repository
C29_RelocatedNeverMissed ==
    [][\A n \in done :
          (/\ \E id \in DOMAIN repo : n \in Owners(id)
           /\ Len(not_processed') > Len(not_processed))
              => not_processed'[Len(not_processed')] # n]_vars

\* The events a step adds to those of the current pass
Added == IF Len(events') > Len(events) THEN SubSeq(events', Len(events) + 1, Len(events')) ELSE <<>>

\* C30: once a dataset is in the done archive it stays there and stays recorded, and no
\* step launches a frames copy, a processed-data copy or a relocation for it
C30_NoRelaunch ==
    [][\A n \in done :
          /\ n \in done'
          /\ n \in DOMAIN completed'
          /\ \A i \in DOMAIN Added :
                Added[i].ds = n => Added[i].ev \notin {"popen_frames", "popen_dataset", "mv"}
          /\ \A p \in Running' \ Running : p.ds # n]_vars

\* A pass has taken a dataset of the done archive again and has found no record for it
C30_RelocatedVisitedAgain ==
    \E i \in DOMAIN events :
        /\ events[i].ev = "miss"
        /\ events[i].ds \in done
        /\ events[i].ds \in DOMAIN completed

\* C31: while log files only grow (no step of this specification removes or rewrites a
\* line), a dataset recorded with the status error stays recorded with the status error
\* in every later step
C31_ErrorAbsorbing ==
    [][/\ \A s \in DOMAIN logs :
             s \in DOMAIN logs' /\ SubSeq(logs'[s], 1, Len(logs[s])) = logs[s]
       /\ \A n \in DOMAIN completed :
             completed[n] = "error" => n \in DOMAIN completed' /\ completed'[n] = "error"]_vars

====
